---- MODULE Spec2Model ----
(***************************************************************************)
(* Model of the customer demographics enricher (src/app.py): ZIP column    *)
(* detection, ZIP normalisation, the cached census reference table, the    *)
(* left join with the population floor, the summary metrics and the        *)
(* display reordering.                                                     *)
(*                                                                         *)
(* Text is modelled as a sequence of one-character strings, so that        *)
(* lower-casing, stripping, splitting, padding and substring search are    *)
(* computed character by character as Python computes them.  A missing     *)
(* value (None, NaN) is the empty tuple <<>>; a present number v in a      *)
(* joined cell is the one-element tuple <<v>>.                             *)
(***************************************************************************)
EXTENDS Integers, Sequences, FiniteSets, TLC

VARIABLES
    pc,               \* position of the script / of the function under study
    signAware,        \* build variant of Series.str.zfill (sign prefix kept in front or not)
    series,           \* clean_zip_codes: the value handed in
    cleaned,          \* clean_zip_codes(series)
    recleaned,        \* clean_zip_codes(cleaned)
    columns,          \* find_zip_column: df.columns handed in
    zip_col,          \* result of find_zip_column (<<>> is None)
    refFile,          \* census_reference.csv as read by pd.read_csv (<<"missing">> if absent)
    census_df,        \* the cached reference table (st.cache_data)
    uploaded_file,    \* the uploaded table of the current run
    exclude_low_pop,  \* the sidebar checkbox
    final_df,         \* the enriched table (<<>> is None)
    metrics,          \* total_rows, matched_rows, match_rate, avg_income, avg_age
    shown,            \* what the run rendered: success banner, preview, export
    errors            \* st.error messages of the run, in order

vars == <<pc, signAware, series, cleaned, recleaned, columns, zip_col, refFile,
          census_df, uploaded_file, exclude_low_pop, final_df, metrics, shown, errors>>

(***************************************************************************)
(* Bounds of the model                                                     *)
(***************************************************************************)
MaxLen == 6      \* longest string handed to clean_zip_codes
MaxHeaders == 3  \* most headers handed to find_zip_column
MaxCols == 2     \* most columns of an uploaded table
MaxRows == 2     \* most rows of an uploaded table
MaxRef == 2      \* most rows of the reference file

(***************************************************************************)
(* Text helpers (Python str methods)                                       *)
(***************************************************************************)
None == <<>>

Whitespace == {" "}

RECURSIVE SeqsUpTo(_, _)
\* all sequences over S of length at most n
SeqsUpTo(S, n) ==
    IF n = 0 THEN {<<>>}
    ELSE LET shorter == SeqsUpTo(S, n - 1)
         IN  shorter \cup {Append(s, x) : s \in {t \in shorter : Len(t) = n - 1}, x \in S}

\* index of the first occurrence of character ch in s, 0 if none
FirstIndex(s, ch) ==
    IF \E i \in 1..Len(s) : s[i] = ch
    THEN CHOOSE i \in 1..Len(s) : s[i] = ch /\ \A j \in 1..(i - 1) : s[j] # ch
    ELSE 0

\* s.split(ch)[0]
SplitFirst(s, ch) ==
    LET i == FirstIndex(s, ch)
    IN  IF i = 0 THEN s ELSE SubSeq(s, 1, i - 1)

RECURSIVE LStrip(_)
LStrip(s) ==
    IF s # <<>> /\ Head(s) \in Whitespace THEN LStrip(Tail(s)) ELSE s

RECURSIVE RStrip(_)
RStrip(s) ==
    IF s # <<>> /\ s[Len(s)] \in Whitespace THEN RStrip(SubSeq(s, 1, Len(s) - 1)) ELSE s

\* s.strip()
Strip(s) == RStrip(LStrip(s))

RECURSIVE Zeros(_)
Zeros(n) == IF n <= 0 THEN <<>> ELSE <<"0">> \o Zeros(n - 1)

\* Series.str.zfill(width): left-pad with "0"; a sign-aware build (str.zfill)
\* keeps a leading "+" or "-" in front of the padding
ZFill(s, width, aware) ==
    IF Len(s) >= width THEN s
    ELSE IF aware /\ s # <<>> /\ Head(s) \in {"+", "-"}
         THEN <<Head(s)>> \o Zeros(width - Len(s)) \o Tail(s)
         ELSE Zeros(width - Len(s)) \o s

ZipWidth == 5

\* faulty variant: whitespace stripped before the separators are split off
clean_zip_StripFirst(x, aware) ==
    ZFill(SplitFirst(SplitFirst(Strip(x), "."), "-"), ZipWidth, aware)

\* clean_zip_codes, applied to one element of the series
clean_zip(x, aware) ==
    LET s1 == SplitFirst(x, ".")
        s2 == SplitFirst(s1, "-")
    IN  ZFill(Strip(s2), ZipWidth, aware)

(***************************************************************************)
(* find_zip_column                                                         *)
(***************************************************************************)
UpperAlpha == <<"A", "B", "C", "D", "E", "F", "G", "H", "I", "J", "K", "L", "M", "N", "O", "P", "Q", "R", "S", "T", "U", "V", "W", "X", "Y", "Z">>

LowerAlpha == <<"a", "b", "c", "d", "e", "f", "g", "h", "i", "j", "k", "l", "m", "n", "o", "p", "q", "r", "s", "t", "u", "v", "w", "x", "y", "z">>

\* the lower-case letter of each upper-case letter
UpperToLower ==
    [ch \in {UpperAlpha[i] : i \in 1..Len(UpperAlpha)} |->
        LowerAlpha[CHOOSE i \in 1..Len(UpperAlpha) : UpperAlpha[i] = ch]]

\* str.lower() of one character
LowerChar(ch) == IF ch \in DOMAIN UpperToLower THEN UpperToLower[ch] ELSE ch

\* str.lower()
Lower(s) == [i \in 1..Len(s) |-> LowerChar(s[i])]

\* Python's "c in s" for strings: c occurs in s as a contiguous substring
Contains(c, s) ==
    \E i \in 1..(Len(s) - Len(c) + 1) : SubSeq(s, i, i + Len(c) - 1) = c

\* the candidates list, in its declared order
candidates == <<
    <<"z", "i", "p">>,
    <<"z", "i", "p", "c", "o", "d", "e">>,
    <<"z", "i", "p", " ", "c", "o", "d", "e">>,
    <<"z", "i", "p", "_", "c", "o", "d", "e">>,
    <<"p", "o", "s", "t", "a", "l">>,
    <<"p", "o", "s", "t", "a", "l", " ", "c", "o", "d", "e">>,
    <<"p", "o", "s", "t", "a", "l", "_", "c", "o", "d", "e">>,
    <<"p", "o", "s", "t", "c", "o", "d", "e">>,
    <<"p", "o", "s", "t", "_", "c", "o", "d", "e">>,
    <<"b", "i", "l", "l", "i", "n", "g", " ", "z", "i", "p">>,
    <<"b", "i", "l", "l", "i", "n", "g", "_", "z", "i", "p">>,
    <<"b", "i", "l", "l", "i", "n", "g", " ", "p", "o", "s", "t", "a", "l">>,
    <<"b", "i", "l", "l", "i", "n", "g", "_", "p", "o", "s", "t", "a", "l", "_", "c", "o", "d", "e">>,
    <<"s", "h", "i", "p", "p", "i", "n", "g", " ", "z", "i", "p">>,
    <<"s", "h", "i", "p", "p", "i", "n", "g", "_", "z", "i", "p">>,
    <<"s", "h", "i", "p", "p", "i", "n", "g", " ", "p", "o", "s", "t", "a", "l">>,
    <<"s", "h", "i", "p", "p", "i", "n", "g", "_", "p", "o", "s", "t", "a", "l", "_", "c", "o", "d", "e">>
    >>

\* "x in candidates" for a list
InCandidates(x) == \E k \in 1..Len(candidates) : candidates[k] = x

RECURSIVE ExactPass(_, _)
\* first loop: the first column whose lowered, stripped name is a candidate
ExactPass(cols, i) ==
    IF i > Len(cols) THEN None
    ELSE IF InCandidates(Strip(Lower(cols[i]))) THEN cols[i]
    ELSE ExactPass(cols, i + 1)

RECURSIVE CandidateLoop(_, _)
\* inner loop of the second pass: does some candidate occur in col_lower
CandidateLoop(col_lower, k) ==
    IF k > Len(candidates) THEN FALSE
    ELSE IF Contains(candidates[k], col_lower) THEN TRUE
    ELSE CandidateLoop(col_lower, k + 1)

RECURSIVE FuzzyPass(_, _)
\* second loop: the first column whose lowered name contains a candidate
FuzzyPass(cols, i) ==
    IF i > Len(cols) THEN None
    ELSE IF CandidateLoop(Lower(cols[i]), 1) THEN cols[i]
    ELSE FuzzyPass(cols, i + 1)

RECURSIVE CandidateFirstPass(_, _)
\* an exact pass that walks the candidates in priority order instead of the columns
CandidateFirstPass(cols, k) ==
    IF k > Len(candidates) THEN None
    ELSE IF \E i \in 1..Len(cols) : Strip(Lower(cols[i])) = candidates[k]
         THEN cols[CHOOSE i \in 1..Len(cols) : Strip(Lower(cols[i])) = candidates[k]]
    ELSE CandidateFirstPass(cols, k + 1)

\* faulty variant: the exact pass scans candidates first, columns second
find_zip_column_CandidateOrder(cols) ==
    LET exact == CandidateFirstPass(cols, 1)
    IN  IF exact # None THEN exact ELSE FuzzyPass(cols, 1)

\* faulty variant: no exact pass, the first column containing a candidate wins
find_zip_column_FuzzyOnly(cols) == FuzzyPass(cols, 1)

\* faulty variant: a fallback guess, the first column, when no header matches
find_zip_column_FirstColumn(cols) ==
    LET exact == ExactPass(cols, 1)
        fuzzy == FuzzyPass(cols, 1)
    IN  IF exact # None THEN exact
        ELSE IF fuzzy # None THEN fuzzy
        ELSE IF cols # <<>> THEN cols[1] ELSE None

\* find_zip_column(df), on df.columns; None is <<>>
find_zip_column(cols) ==
    LET exact == ExactPass(cols, 1)
    IN  IF exact # None THEN exact ELSE FuzzyPass(cols, 1)

(***************************************************************************)
(* Headers and cell texts used as inputs                                   *)
(***************************************************************************)
\* "Billing Zip"
H_BillingZip == <<"B", "i", "l", "l", "i", "n", "g", " ", "Z", "i", "p">>

\* "zip code"
H_zip_code_sp == <<"z", "i", "p", " ", "c", "o", "d", "e">>

\* "customer_id"
H_customer_id == <<"c", "u", "s", "t", "o", "m", "e", "r", "_", "i", "d">>

\* "email"
H_email == <<"e", "m", "a", "i", "l">>

\* " ZIP "
H_ZIP_padded == <<" ", "Z", "I", "P", " ">>

\* "Zip5"
H_Zip5 == <<"Z", "i", "p", "5">>

\* "Billing Zip Code"
H_BillingZipCode == <<"B", "i", "l", "l", "i", "n", "g", " ", "Z", "i", "p", " ", "C", "o", "d", "e">>

\* "zip"
H_zip == <<"z", "i", "p">>

\* "zip_code"
H_zip_code == <<"z", "i", "p", "_", "c", "o", "d", "e">>

\* "median_income"
H_median_income == <<"m", "e", "d", "i", "a", "n", "_", "i", "n", "c", "o", "m", "e">>

\* headers handed to find_zip_column on its own
DetectHeaders ==
    {H_BillingZip, H_zip_code_sp, H_customer_id, H_email, H_ZIP_padded, H_Zip5,
     H_BillingZipCode}

\* characters of the strings handed to clean_zip_codes on its own
ZipAlphabet == {"1", ".", "-", " ", "+"}

\* sequences without a repeated element (pd.read_csv never yields two equal headers)
Distinct(s) == \A i, j \in 1..Len(s) : i # j => s[i] # s[j]

(***************************************************************************)
(* clean_zip_codes on its own: the function applied once and once more     *)
(***************************************************************************)
Idle ==
    /\ refFile = None /\ census_df = None /\ uploaded_file = None
    /\ exclude_low_pop = TRUE /\ final_df = None /\ metrics = None
    /\ shown = None /\ errors = None

InitNorm ==
    /\ pc = "clean"
    /\ signAware \in BOOLEAN
    /\ series \in SeqsUpTo(ZipAlphabet, MaxLen)
    /\ cleaned = None /\ recleaned = None
    /\ columns = None /\ zip_col = None
    /\ Idle

Clean ==
    /\ pc = "clean"
    /\ cleaned' = clean_zip(series, signAware)
    /\ pc' = "reclean"
    /\ UNCHANGED <<signAware, series, recleaned, columns, zip_col, refFile, census_df,
                   uploaded_file, exclude_low_pop, final_df, metrics, shown, errors>>

Reclean ==
    /\ pc = "reclean"
    /\ recleaned' = clean_zip(cleaned, signAware)
    /\ pc' = "cleaned"
    /\ UNCHANGED <<signAware, series, cleaned, columns, zip_col, refFile, census_df,
                   uploaded_file, exclude_low_pop, final_df, metrics, shown, errors>>

NextNorm == Clean \/ Reclean

SpecNorm == InitNorm /\ [][NextNorm]_vars

(***************************************************************************)
(* find_zip_column on its own                                              *)
(***************************************************************************)
InitDetect ==
    /\ pc = "detect"
    /\ signAware = TRUE
    /\ series = None /\ cleaned = None /\ recleaned = None
    /\ columns \in {c \in SeqsUpTo(DetectHeaders, MaxHeaders) : Distinct(c)}
    /\ zip_col = None
    /\ Idle

Detect ==
    /\ pc = "detect"
    /\ zip_col' = find_zip_column(columns)
    /\ pc' = "detected"
    /\ UNCHANGED <<signAware, series, cleaned, recleaned, columns, refFile, census_df,
                   uploaded_file, exclude_low_pop, final_df, metrics, shown, errors>>

NextDetect == Detect

SpecDetect == InitDetect /\ [][NextDetect]_vars

(***************************************************************************)
(* Properties of clean_zip_codes and find_zip_column                       *)
(***************************************************************************)

\* C6: normalising an already normalised value changes nothing:
\* clean_zip_codes(clean_zip_codes(x)) = clean_zip_codes(x) for every string x.
C6_Idempotent == pc = "cleaned" => recleaned = cleaned

\* C6 witness: a string longer than five characters with whitespace before a
\* separator has been normalised twice
C6_Witness ==
    /\ pc = "cleaned"
    /\ series = <<"1", "1", " ", "-", "1", "1">>
    /\ cleaned = <<"0", "0", "0", "1", "1">>

\* a header is an exact match: lowered and stripped, it is one of the candidates
IsExact(h) == \E k \in 1..Len(candidates) : Strip(Lower(h)) = candidates[k]

\* a header is a fuzzy match: lowered, it contains one of the candidates
IsFuzzy(h) == \E k \in 1..Len(candidates) : Contains(candidates[k], Lower(h))

\* the least index of cols whose header satisfies P, 0 if none
FirstWhere(cols, P(_)) ==
    IF \E i \in 1..Len(cols) : P(cols[i])
    THEN CHOOSE i \in 1..Len(cols) : P(cols[i]) /\ \A j \in 1..(i - 1) : ~P(cols[j])
    ELSE 0

\* C10: two-pass policy: the first exact header in column order if there is one,
\* else the first header containing a candidate, else NOT_FOUND.
C10_TwoPass ==
    pc = "detected" =>
        LET e == FirstWhere(columns, IsExact)
            f == FirstWhere(columns, IsFuzzy)
        IN  IF e # 0 THEN zip_col = columns[e]
            ELSE IF f # 0 THEN zip_col = columns[f]
            ELSE zip_col = None

\* C10 witness: an exact header was returned although an earlier header
\* contains a candidate
C10_Witness ==
    /\ pc = "detected"
    /\ columns = <<H_Zip5, H_email, H_ZIP_padded>>
    /\ zip_col = H_ZIP_padded

\* C2 as stated: ["Billing Zip", "zip code"] yields "zip code"
C2_Original ==
    (pc = "detected" /\ columns = <<H_BillingZip, H_zip_code_sp>>) => zip_col = H_zip_code_sp

\* C2 (amended): ["Billing Zip", "zip code"] yields "Billing Zip", itself an exact
\* match of the candidate 'billing zip' and first in column order; a header that is
\* an exact match is still preferred over an earlier header that only contains a
\* candidate: ["Billing Zip Code", "zip code"] yields "zip code".
C2_Amended ==
    /\ (pc = "detected" /\ columns = <<H_BillingZip, H_zip_code_sp>>) => zip_col = H_BillingZip
    /\ (pc = "detected" /\ columns = <<H_BillingZipCode, H_zip_code_sp>>)
           => zip_col = H_zip_code_sp

\* C2 witness: detection has run on ["Billing Zip", "zip code"]
C2_Witness ==
    /\ pc = "detected"
    /\ columns = <<H_BillingZip, H_zip_code_sp>>
    /\ IsExact(H_BillingZip) /\ IsExact(H_zip_code_sp)

(***************************************************************************)
(* Tables.  A frame is [columns, rows]; a column is [label, side, name]:   *)
(* its current label, the table it came from and its label there.  A row   *)
(* of the uploaded or joined table is [src, zip, join, ref]: the position   *)
(* of the input row it derives from, the text of its cell in the detected   *)
(* ZIP column, its '__join_zip' cell and the reference row joined to it     *)
(* (<<>> when none).  Cells of the other uploaded columns are carried       *)
(* through untouched and are identified by src and the column's name.       *)
(***************************************************************************)
\* "__join_zip"
C_join_zip == <<"_", "_", "j", "o", "i", "n", "_", "z", "i", "p">>

\* "zip_code"
C_zip_code == <<"z", "i", "p", "_", "c", "o", "d", "e">>

\* "median_income"
C_median_income == <<"m", "e", "d", "i", "a", "n", "_", "i", "n", "c", "o", "m", "e">>

\* "median_age"
C_median_age == <<"m", "e", "d", "i", "a", "n", "_", "a", "g", "e">>

\* "population"
C_population == <<"p", "o", "p", "u", "l", "a", "t", "i", "o", "n">>

\* "Estimated household income"
C_income == <<"E", "s", "t", "i", "m", "a", "t", "e", "d", " ", "h", "o", "u", "s", "e", "h", "o", "l", "d", " ", "i", "n", "c", "o", "m", "e">>

\* "Median age"
C_age == <<"M", "e", "d", "i", "a", "n", " ", "a", "g", "e">>

\* "Zip population"
C_pop == <<"Z", "i", "p", " ", "p", "o", "p", "u", "l", "a", "t", "i", "o", "n">>

\* "_x"
SUFFIX_X == <<"_", "x">>

\* "_y"
SUFFIX_Y == <<"_", "y">>

\* "501"
Z_501 == <<"5", "0", "1">>

\* "00501"
Z_00501 == <<"0", "0", "5", "0", "1">>

\* "501.0"
Z_501f == <<"5", "0", "1", ".", "0">>

\* "501-9"
Z_501_9 == <<"5", "0", "1", "-", "9">>

\* "7"
Z_7 == <<"7">>

MIN_POPULATION == 100

ERROR_MSG == "Error: Could not detect a Zip Code column. Please rename your header to 'Zip' or 'Postal Code'."

PROCESSING_MSG == "Something went wrong during processing"

\* df.columns of the reference table
CensusColumns == <<C_zip_code, C_median_income, C_median_age, C_population>>

Labels(cols) == [i \in 1..Len(cols) |-> cols[i].label]

\* "label in frame.columns"
HasLabel(cols, label) == \E i \in 1..Len(cols) : cols[i].label = label

\* load_census_data: None when the file is missing, else the rows with the key
\* column zero-padded to five characters
load_census_data(file, aware) ==
    IF ~file.exists THEN None
    ELSE <<[j \in 1..Len(file.rows) |->
              [file.rows[j] EXCEPT !.zip_code = ZFill(@, ZipWidth, aware)]]>>

\* df['__join_zip'] = clean_zip_codes(df[zip_col]): the column is appended, or
\* overwritten in place when the table already has one of that label
AddJoinZip(df, aware) ==
    [columns |-> IF HasLabel(df.columns, C_join_zip)
                 THEN [i \in 1..Len(df.columns) |->
                          IF df.columns[i].label = C_join_zip
                          THEN [label |-> C_join_zip, side |-> "key", name |-> C_join_zip]
                          ELSE df.columns[i]]
                 ELSE Append(df.columns,
                             [label |-> C_join_zip, side |-> "key", name |-> C_join_zip]),
     rows |-> [i \in 1..Len(df.rows) |->
                  [df.rows[i] EXCEPT !.join = clean_zip(df.rows[i].zip, aware)]]]

RECURSIVE AtLeastFloor(_, _)
\* ref_df[ref_df['population'] >= 100]: the rows from position i on that pass
AtLeastFloor(rows, i) ==
    IF i > Len(rows) THEN <<>>
    ELSE IF rows[i].population >= MIN_POPULATION
         THEN <<rows[i]>> \o AtLeastFloor(rows, i + 1)
         ELSE AtLeastFloor(rows, i + 1)

\* faulty variant: the low-population rows are dropped from the cached table itself
PrepareReference_InPlace(census, flag) ==
    IF flag
    THEN [ref_df |-> AtLeastFloor(census, 1), census_df |-> AtLeastFloor(census, 1)]
    ELSE [ref_df |-> census, census_df |-> census]

\* ref_df = census_df.copy(); if exclude_low_pop: ref_df = ref_df[population >= 100].
\* The result names the table handed to the join and the cached table afterwards.
PrepareReference(census, flag) ==
    [ref_df |-> IF flag THEN AtLeastFloor(census, 1) ELSE census,
     census_df |-> census]

RECURSIVE Hits(_, _, _)
\* the left row joined to each right row from position j on whose key equals its
\* join key, in the right table's order
Hits(row, ref_df, j) ==
    IF j > Len(ref_df) THEN <<>>
    ELSE IF ref_df[j].zip_code = row.join
         THEN <<[row EXCEPT !.ref = <<ref_df[j]>>]>> \o Hits(row, ref_df, j + 1)
         ELSE Hits(row, ref_df, j + 1)

\* the rows a left join emits for one left row: one per matching right row, or
\* a single row without a match
JoinRow(row, ref_df) ==
    IF \E j \in 1..Len(ref_df) : ref_df[j].zip_code = row.join
    THEN Hits(row, ref_df, 1)
    ELSE <<[row EXCEPT !.ref = None]>>

RECURSIVE JoinRows(_, _, _)
\* the joined rows of the left rows from position i on, in left order
JoinRows(rows, ref_df, i) ==
    IF i > Len(rows) THEN <<>>
    ELSE JoinRow(rows[i], ref_df) \o JoinRows(rows, ref_df, i + 1)

\* pd.merge(df, ref_df, left_on='__join_zip', right_on='zip_code', how='left'):
\* the left columns then the right columns, a label present on both sides
\* getting the suffixes _x and _y; rows in left order
Merge(df, ref_df) ==
    LET left == Labels(df.columns)
        InLeft(l) == \E i \in 1..Len(left) : left[i] = l
        InRight(l) == \E j \in 1..Len(CensusColumns) : CensusColumns[j] = l
    IN  [columns |->
            [i \in 1..Len(df.columns) |->
                IF InRight(df.columns[i].label)
                THEN [df.columns[i] EXCEPT !.label = @ \o SUFFIX_X]
                ELSE df.columns[i]]
            \o
            [j \in 1..Len(CensusColumns) |->
                [label |-> IF InLeft(CensusColumns[j])
                           THEN CensusColumns[j] \o SUFFIX_Y ELSE CensusColumns[j],
                 side |-> "right", name |-> CensusColumns[j]]],
         rows |-> JoinRows(df.rows, ref_df, 1)]

\* merged.rename(columns={...}): only a column whose label is exactly the key
Rename(frame) ==
    [frame EXCEPT !.columns =
        [i \in 1..Len(frame.columns) |->
            [frame.columns[i] EXCEPT !.label =
                IF @ = C_median_income THEN C_income
                ELSE IF @ = C_median_age THEN C_age
                ELSE IF @ = C_population THEN C_pop
                ELSE @]]]

RECURSIVE DropLabels(_, _, _)
\* the columns from position i on whose label is not in labels
DropLabels(cols, labels, i) ==
    IF i > Len(cols) THEN <<>>
    ELSE IF cols[i].label \in labels THEN DropLabels(cols, labels, i + 1)
    ELSE <<cols[i]>> \o DropLabels(cols, labels, i + 1)

\* merged.drop(columns=[c for c in ['__join_zip', 'zip_code'] if c in merged.columns])
DropKeys(frame) == [frame EXCEPT !.columns = DropLabels(@, {C_join_zip, C_zip_code}, 1)]

\* the cell of a row in a column: an uploaded cell, the join key, or the joined
\* reference row's field (NaN when the row has no match or the field is absent)
Cell(row, col) ==
    IF col.side = "key" THEN row.join
    ELSE IF col.side = "left" THEN <<row.src>>
    ELSE IF row.ref = None THEN None
    ELSE IF col.name = C_zip_code THEN row.ref[1].zip_code
    ELSE IF col.name = C_median_income THEN row.ref[1].median_income
    ELSE IF col.name = C_median_age THEN row.ref[1].median_age
    ELSE <<row.ref[1].population>>

\* frame[label], for a label the frame has
Column(frame, label) ==
    LET c == frame.columns[CHOOSE i \in 1..Len(frame.columns) : frame.columns[i].label = label]
    IN  [i \in 1..Len(frame.rows) |-> Cell(frame.rows[i], c)]

RECURSIVE Sum(_)
\* the sum of the present values of a column
Sum(cells) ==
    IF cells = <<>> THEN 0
    ELSE (IF Head(cells) = None THEN 0 ELSE Head(cells)[1]) + Sum(Tail(cells))

RECURSIVE NotNaCount(_)
\* column.notna().sum()
NotNaCount(cells) ==
    IF cells = <<>> THEN 0
    ELSE (IF Head(cells) = None THEN 0 ELSE 1) + NotNaCount(Tail(cells))

\* column.mean(): <<sum, count>> of the present values, NaN when there are none
Mean(cells) == IF NotNaCount(cells) = 0 THEN None ELSE <<Sum(cells), NotNaCount(cells)>>

\* step 7: total_rows, matched_rows, match_rate (a fraction <<numerator, denominator>>),
\* avg_income, avg_age
CalculateMetrics(final) ==
    LET total_rows == Len(final.rows)
        matched_rows == NotNaCount(Column(final, C_income))
    IN  [total_rows |-> total_rows,
         matched_rows |-> matched_rows,
         match_rate |-> IF total_rows > 0 THEN <<matched_rows, total_rows>> ELSE <<0, 1>>,
         avg_income |-> Mean(Column(final, C_income)),
         avg_age |-> Mean(Column(final, C_age))]

\* the metrics of a run before the try block
NoMetrics ==
    [total_rows |-> 0, matched_rows |-> 0, match_rate |-> <<0, 1>>,
     avg_income |-> <<0, 1>>, avg_age |-> <<0, 1>>]

RECURSIVE RemoveFirst(_, _)
\* list.remove(x) for an x the list has
RemoveFirst(s, x) ==
    IF s = <<>> THEN <<>>
    ELSE IF Head(s) = x THEN Tail(s)
    ELSE <<Head(s)>> \o RemoveFirst(Tail(s), x)

RECURSIVE RemoveAll(_, _)
\* for c in xs: if c in cols: cols.remove(c)
RemoveAll(cols, xs) ==
    IF xs = <<>> THEN cols
    ELSE RemoveAll(IF \E i \in 1..Len(cols) : cols[i] = Head(xs)
                   THEN RemoveFirst(cols, Head(xs)) ELSE cols,
                   Tail(xs))

metric_cols == <<C_income, C_age, C_pop>>

\* step 9: display_order = [zip_col] + metric_cols + the remaining labels
DisplayOrder(final, zc) ==
    <<zc>> \o metric_cols \o RemoveAll(Labels(final.columns), metric_cols \o <<zc>>)

\* final_df[display_order], for labels the frame has
Select(frame, order) ==
    [frame EXCEPT !.columns =
        [k \in 1..Len(order) |->
            frame.columns[CHOOSE i \in 1..Len(frame.columns) :
                              frame.columns[i].label = order[k]]]]

(***************************************************************************)
(* One run of the script on an uploaded file (src/app.py:228-344).         *)
(* st.stop() ends the run; it raises a script-control exception that the   *)
(* "except Exception" clause does not intercept.  Headers equal to one of  *)
(* the three presentation names are not among the inputs.                  *)
(***************************************************************************)
Stopped(census, zc, final, msgs) ==
    [pc |-> "stopped", zip_col |-> zc, final_df |-> final, metrics |-> NoMetrics,
     shown |-> {}, errors |-> msgs, census_df |-> census]

\* the uploaded table as a frame
UploadFrame(up) ==
    [columns |-> [i \in 1..Len(up.columns) |->
                     [label |-> up.columns[i], side |-> "left", name |-> up.columns[i]]],
     rows |-> [i \in 1..Len(up.rows) |->
                  [src |-> i, zip |-> up.rows[i], join |-> None, ref |-> None]]]

\* display phase (src/app.py:284-344): banner and scorecards, the reordering,
\* then preview and export; a label of display_order missing from the frame
\* raises KeyError outside any try block
Display(census, zc, final, m) ==
    LET display_order == DisplayOrder(final, zc)
    IN  IF \E k \in 1..Len(display_order) : ~HasLabel(final.columns, display_order[k])
        THEN [pc |-> "crashed", zip_col |-> zc, final_df |-> <<final>>, metrics |-> m,
              shown |-> {"success", "scorecards"}, errors |-> <<>>, census_df |-> census]
        ELSE [pc |-> "done", zip_col |-> zc,
              final_df |-> <<Select(final, display_order)>>, metrics |-> m,
              shown |-> {"success", "scorecards", "preview", "export"},
              errors |-> <<>>, census_df |-> census]

\* steps 3 to 7 of the processing phase, for a detected zip_col, then the display
\* phase; a missing 'Estimated household income' or 'Median age' column raises
\* KeyError inside the try block
Enrich(census, up, flag, aware, zc) ==
    LET df == AddJoinZip(UploadFrame(up), aware)
        prep == PrepareReference(census, flag)
        merged == Rename(Merge(df, prep.ref_df))
        final == DropKeys(merged)
    IN  IF ~HasLabel(final.columns, C_income) \/ ~HasLabel(final.columns, C_age)
        THEN Stopped(prep.census_df, zc, <<final>>, <<PROCESSING_MSG>>)
        ELSE Display(prep.census_df, zc, final, CalculateMetrics(final))

\* processing phase (src/app.py:229-281) followed by the display phase
RunScript(census, up, flag, aware) ==
    IF ~up.parse_ok THEN Stopped(census, None, None, <<PROCESSING_MSG>>)
    ELSE LET zc == find_zip_column(up.columns)
         IN  IF zc = None THEN Stopped(census, zc, None, <<ERROR_MSG>>)
             ELSE Enrich(census, up, flag, aware, zc)

(***************************************************************************)
(* Inputs                                                                  *)
(***************************************************************************)
\* headers of uploaded tables
UploadHeaders == {H_zip, H_customer_id, H_zip_code, H_median_income}

\* cell texts of the uploaded ZIP column, after astype(str)
UploadZips == {Z_501_9, Z_7}

\* rows of the reference file: the key as text, the two statistics present or
\* absent, the population at or just under the floor
RefRows ==
    {[zip_code |-> z, median_income |-> k.median_income, median_age |-> k.median_age,
      population |-> k.population] :
        z \in {Z_501, Z_00501, Z_501f},
        k \in {[median_income |-> <<60>>, median_age |-> <<40>>, population |-> MIN_POPULATION],
               [median_income |-> <<20>>, median_age |-> None, population |-> MIN_POPULATION - 1],
               [median_income |-> None, median_age |-> <<35>>, population |-> MIN_POPULATION]}}

\* reference files: missing, or rows whose raw keys are pairwise different
RefFiles ==
    {[exists |-> FALSE, rows |-> <<>>]} \cup
    {[exists |-> TRUE, rows |-> rs] :
        rs \in {t \in SeqsUpTo(RefRows, MaxRef) :
                   \A i, j \in 1..Len(t) : i # j => t[i].zip_code # t[j].zip_code}}

\* uploads: a file that fails to parse, or a table with at least one column
Uploads ==
    {[parse_ok |-> FALSE, columns |-> <<>>, rows |-> <<>>]} \cup
    {[parse_ok |-> TRUE, columns |-> cs, rows |-> rs] :
        cs \in {c \in SeqsUpTo(UploadHeaders, MaxCols) : Distinct(c) /\ c # <<>>},
        rs \in SeqsUpTo(UploadZips, MaxRows)}

(***************************************************************************)
(* The application: load once, then one run per upload                     *)
(***************************************************************************)
Init ==
    /\ pc = "boot"
    /\ signAware = TRUE
    /\ series = None /\ cleaned = None /\ recleaned = None
    /\ columns = None /\ zip_col = None
    /\ refFile \in RefFiles
    /\ census_df = None
    /\ uploaded_file = None
    /\ exclude_low_pop = TRUE
    /\ final_df = None
    /\ metrics = NoMetrics
    /\ shown = {}
    /\ errors = <<>>

\* src/app.py:78-82: the first call of the cached loader; a missing file is fatal
Load ==
    /\ pc = "boot"
    /\ census_df' = load_census_data(refFile, signAware)
    /\ pc' = IF census_df' = None THEN "fatal" ELSE "idle"
    /\ UNCHANGED <<signAware, series, cleaned, recleaned, columns, zip_col, refFile,
                   uploaded_file, exclude_low_pop, final_df, metrics, shown, errors>>

\* a file is uploaded and the script runs to its end
Run ==
    /\ pc = "idle"
    /\ \E up \in Uploads, flag \in BOOLEAN :
          \E r \in {RunScript(census_df[1], up, flag, signAware)} :
              /\ uploaded_file' = up
              /\ exclude_low_pop' = flag
              /\ pc' = r.pc
              /\ zip_col' = r.zip_col
              /\ final_df' = r.final_df
              /\ metrics' = r.metrics
              /\ shown' = r.shown
              /\ errors' = r.errors
              /\ census_df' = <<r.census_df>>
    /\ UNCHANGED <<signAware, series, cleaned, recleaned, columns, refFile>>

\* the file is removed: the next run starts with fresh script variables, the
\* cached table and the checkbox are kept
Reset ==
    /\ pc \in {"done", "stopped", "crashed"}
    /\ pc' = "idle"
    /\ uploaded_file' = None
    /\ zip_col' = None
    /\ final_df' = None
    /\ metrics' = NoMetrics
    /\ shown' = {}
    /\ errors' = <<>>
    /\ UNCHANGED <<signAware, series, cleaned, recleaned, columns, refFile, census_df,
                   exclude_low_pop>>

Next == Load \/ Run \/ Reset

Spec == Init /\ [][Next]_vars

(***************************************************************************)
(* Properties of the enrichment run                                        *)
(***************************************************************************)
\* the run on the uploaded file has ended
Ended == pc \in {"done", "stopped", "crashed"}

\* the reference rows the join may use under the current flag
Selected(j) ==
    exclude_low_pop => census_df[1][j].population >= MIN_POPULATION

\* the canonical ZIP of the i-th uploaded row
Canonical(i) == clean_zip(uploaded_file.rows[i], signAware)

\* C1: the enriched table has exactly as many rows as the input table and its
\* i-th row derives from the i-th input row.
C1_Cardinality ==
    (Ended /\ final_df # None) =>
        /\ Len(final_df[1].rows) = Len(uploaded_file.rows)
        /\ \A i \in 1..Len(final_df[1].rows) : final_df[1].rows[i].src = i

\* C3: total_rows is the number of input rows, matched_rows the number of input
\* rows whose canonical ZIP is the key of a selected reference row, and
\* match_rate their quotient (0 for an empty input).
C3_MatchRate ==
    pc \in {"done", "crashed"} =>
        LET n == Len(uploaded_file.rows)
            matched == Cardinality({i \in 1..n :
                           \E j \in 1..Len(census_df[1]) :
                               Selected(j) /\ census_df[1][j].zip_code = Canonical(i)})
        IN  /\ metrics.total_rows = n
            /\ metrics.matched_rows = matched
            /\ IF n = 0 THEN metrics.match_rate[1] = 0
               ELSE metrics.match_rate[1] * n = matched * metrics.match_rate[2]

\* C4: with the flag set, an input row whose canonical ZIP is the key of a
\* reference row below the floor gets no demographic value; with the flag
\* clear it is joined to that reference row.
C4_Floor ==
    (Ended /\ final_df # None) =>
        \A i \in 1..Len(uploaded_file.rows), j \in 1..Len(census_df[1]) :
            (/\ census_df[1][j].population < MIN_POPULATION
             /\ census_df[1][j].zip_code = Canonical(i))
            => IF exclude_low_pop
               THEN \A k \in 1..Len(final_df[1].rows) :
                        final_df[1].rows[k].src = i => final_df[1].rows[k].ref = None
               ELSE \E k \in 1..Len(final_df[1].rows) :
                        /\ final_df[1].rows[k].src = i
                        /\ final_df[1].rows[k].ref = <<census_df[1][j]>>

\* C5: whenever a ZIP column is detected, the run ends with the columns ordered
\* ZIP column, the three demographic columns, then the other input columns.
C5_Order ==
    (Ended /\ uploaded_file.parse_ok /\ zip_col # None) =>
        /\ pc = "done"
        /\ Labels(final_df[1].columns) =
               <<zip_col>> \o metric_cols \o RemoveFirst(uploaded_file.columns, zip_col)

\* C7: every stored reference key is the normalisation of its raw key.
C7_SameNormalisation ==
    census_df # None =>
        \A j \in 1..Len(census_df[1]) :
            census_df[1][j].zip_code = clean_zip(refFile.rows[j].zip_code, signAware)

\* C8: when no header is ZIP-like the run stops with the fixed error alone: no
\* enriched table, no metrics, nothing rendered.
C8_DetectionStops ==
    (/\ Ended
     /\ uploaded_file.parse_ok
     /\ \A i \in 1..Len(uploaded_file.columns) :
            ~IsExact(uploaded_file.columns[i]) /\ ~IsFuzzy(uploaded_file.columns[i]))
    => /\ pc = "stopped"
       /\ errors = <<ERROR_MSG>>
       /\ final_df = None
       /\ metrics = NoMetrics
       /\ shown = {}

\* C8 witness: a table without a ZIP-like header was uploaded and the run stopped
C8_Witness ==
    /\ pc = "stopped"
    /\ uploaded_file.parse_ok
    /\ uploaded_file.columns = <<H_customer_id, H_median_income>>
    /\ Len(uploaded_file.rows) > 0
    /\ errors = <<ERROR_MSG>>

\* C9: once loaded, the cached reference table stays the table of the initial
\* load, whatever requests have run.
C9_CacheUnchanged ==
    pc \notin {"boot", "fatal"} => census_df = load_census_data(refFile, signAware)

\* C9 witness: a run with the floor set has joined against a cache that holds a
\* row below the floor
C9_Witness ==
    /\ pc = "done"
    /\ exclude_low_pop
    /\ Len(final_df[1].rows) > 0
    /\ \E j \in 1..Len(census_df[1]) : census_df[1][j].population < MIN_POPULATION

====
